---- MODULE Spec2Model ----
(***************************************************************************)
(* Syam's Search Assistant (src/main.py): the Streamlit page script as a   *)
(* state machine over the session state, and extract_sources as an        *)
(* operator over texts.  A text is a sequence of one-character strings, so *)
(* that the URL pattern, the substring tests and lower() are computed      *)
(* character by character as the code computes them.                       *)
(*                                                                         *)
(* One script run is one action: the page script runs top to bottom on     *)
(* every interaction and ends at its last line, at st.stop() or at         *)
(* st.rerun().  Init is the session state after the first run has passed   *)
(* line 199 (GROQ_API_KEY present; without it the run stops at line 185    *)
(* before any session state exists).                                       *)
(***************************************************************************)
EXTENDS Integers, Sequences, FiniteSets, TLC

VARIABLES
    messages,        \* st.session_state.messages
    agent,           \* st.session_state.agent: "executor" or NULL
    pc,              \* "idle": waiting for a widget event; "rerun": st.rerun() requested
    event,           \* the widget whose event the last widget-triggered run handled
    pendingAtEvent,  \* whether messages[-1] was a user message when that event arrived
    notice,          \* the st.error / st.warning shown by the last script run
    outcome,         \* what the processing block did in the last script run
    text,            \* extract_sources: the response_text argument
    extracted,       \* extract_sources: whether the call has returned
    result           \* extract_sources: the returned list

vars == <<messages, agent, pc, event, pendingAtEvent, notice, outcome,
          text, extracted, result>>

sessionVars == <<messages, agent, pc, event, pendingAtEvent, notice, outcome>>

extractVars == <<text, extracted, result>>

-----------------------------------------------------------------------------
(* Bounds of the model *)

\* widget events are accepted while the store holds fewer messages than this
MaxMessages == 4

\* an extractor input is a concatenation of at most this many chunks
MaxChunks == 3

-----------------------------------------------------------------------------
(* Texts of the program *)

\* "Hello! I'm your Syam's Search Assistant. I can help you search the web, find academic papers, and browse Wikipedia. What would you like to explore today?"
GREETING ==
    <<"H","e","l","l","o","!"," ","I","'","m"," ","y","o","u","r"," ","S","y","a","m","'",
      "s"," ","S","e","a","r","c","h"," ","A","s","s","i","s","t","a","n","t","."," ","I",
      " ","c","a","n"," ","h","e","l","p"," ","y","o","u"," ","s","e","a","r","c","h"," ",
      "t","h","e"," ","w","e","b",","," ","f","i","n","d"," ","a","c","a","d","e","m","i",
      "c"," ","p","a","p","e","r","s",","," ","a","n","d"," ","b","r","o","w","s","e"," ",
      "W","i","k","i","p","e","d","i","a","."," ","W","h","a","t"," ","w","o","u","l","d",
      " ","y","o","u"," ","l","i","k","e"," ","t","o"," ","e","x","p","l","o","r","e"," ",
      "t","o","d","a","y","?">>

\* "Chat cleared! How can I assist you with your research today?"
CLEAR_GREETING ==
    <<"C","h","a","t"," ","c","l","e","a","r","e","d","!"," ","H","o","w"," ","c","a","n",
      " ","I"," ","a","s","s","i","s","t"," ","y","o","u"," ","w","i","t","h"," ","y","o",
      "u","r"," ","r","e","s","e","a","r","c","h"," ","t","o","d","a","y","?">>

\* "Find the latest research papers about artificial intelligence from arXiv"
AI_RESEARCH_QUERY ==
    <<"F","i","n","d"," ","t","h","e"," ","l","a","t","e","s","t"," ","r","e","s","e","a",
      "r","c","h"," ","p","a","p","e","r","s"," ","a","b","o","u","t"," ","a","r","t","i",
      "f","i","c","i","a","l"," ","i","n","t","e","l","l","i","g","e","n","c","e"," ","f",
      "r","o","m"," ","a","r","X","i","v">>

\* "Search Wikipedia for current events in technology"
WIKIPEDIA_QUERY ==
    <<"S","e","a","r","c","h"," ","W","i","k","i","p","e","d","i","a"," ","f","o","r"," ",
      "c","u","r","r","e","n","t"," ","e","v","e","n","t","s"," ","i","n"," ","t","e","c",
      "h","n","o","l","o","g","y">>

\* "Search the web for recent developments in machine learning"
WEB_SEARCH_QUERY ==
    <<"S","e","a","r","c","h"," ","t","h","e"," ","w","e","b"," ","f","o","r"," ","r","e",
      "c","e","n","t"," ","d","e","v","e","l","o","p","m","e","n","t","s"," ","i","n"," ",
      "m","a","c","h","i","n","e"," ","l","e","a","r","n","i","n","g">>

\* "I apologize, but I couldn't generate a proper response."
DEFAULT_OUTPUT ==
    <<"I"," ","a","p","o","l","o","g","i","z","e",","," ","b","u","t"," ","I"," ","c","o",
      "u","l","d","n","'","t"," ","g","e","n","e","r","a","t","e"," ","a"," ","p","r","o",
      "p","e","r"," ","r","e","s","p","o","n","s","e",".">>

\* "I'm experiencing technical difficulties. Please try again in a moment."
final_error ==
    <<"I","'","m"," ","e","x","p","e","r","i","e","n","c","i","n","g"," ","t","e","c","h",
      "n","i","c","a","l"," ","d","i","f","f","i","c","u","l","t","i","e","s","."," ","P",
      "l","e","a","s","e"," ","t","r","y"," ","a","g","a","i","n"," ","i","n"," ","a"," ",
      "m","o","m","e","n","t",".">>

\* "http://"
HTTP_SCHEME ==
    <<"h","t","t","p",":","/","/">>

\* "https://"
HTTPS_SCHEME ==
    <<"h","t","t","p","s",":","/","/">>

\* "arxiv.org"
ARXIV_ORG ==
    <<"a","r","x","i","v",".","o","r","g">>

\* "wikipedia.org"
WIKIPEDIA_ORG ==
    <<"w","i","k","i","p","e","d","i","a",".","o","r","g">>

\* "doi.org"
DOI_ORG ==
    <<"d","o","i",".","o","r","g">>

\* "arxiv"
KW_ARXIV ==
    <<"a","r","x","i","v">>

\* "paper"
KW_PAPER ==
    <<"p","a","p","e","r">>

\* "research"
KW_RESEARCH ==
    <<"r","e","s","e","a","r","c","h">>

\* "study"
KW_STUDY ==
    <<"s","t","u","d","y">>

\* "wikipedia"
KW_WIKIPEDIA ==
    <<"w","i","k","i","p","e","d","i","a">>

\* "wiki"
KW_WIKI ==
    <<"w","i","k","i">>

\* "https://arxiv.org"
ARXIV_REPOSITORY_URL ==
    <<"h","t","t","p","s",":","/","/","a","r","x","i","v",".","o","r","g">>

\* "https://wikipedia.org"
WIKIPEDIA_URL ==
    <<"h","t","t","p","s",":","/","/","w","i","k","i","p","e","d","i","a",".","o","r","g">>

\* "https://arxiv.org/abs/1234"
ARXIV_ABS_URL ==
    <<"h","t","t","p","s",":","/","/","a","r","x","i","v",".","o","r","g","/","a","b","s",
      "/","1","2","3","4">>

\* "https://en.wikipedia.org/wiki/AI"
WIKI_ARTICLE_URL ==
    <<"h","t","t","p","s",":","/","/","e","n",".","w","i","k","i","p","e","d","i","a",".",
      "o","r","g","/","w","i","k","i","/","A","I">>

\* "https://doi.org/10.1"
DOI_URL ==
    <<"h","t","t","p","s",":","/","/","d","o","i",".","o","r","g","/","1","0",".","1">>

\* "Research"
WORD_RESEARCH_MIXED ==
    <<"R","e","s","e","a","r","c","h">>

\* "wiki"
WORD_WIKI ==
    <<"w","i","k","i">>

\* " "
CHUNK_SPACE ==
    <<" ">>

\* "."
CHUNK_DOT ==
    <<".">>

\* "5"
CHUNK_DIGIT ==
    <<"5">>

-----------------------------------------------------------------------------
(* Character classes of url_pattern and str.lower() *)

LOWER_LETTERS ==
    <<"a","b","c","d","e","f","g","h","i","j","k","l","m",
      "n","o","p","q","r","s","t","u","v","w","x","y","z">>

UPPER_LETTERS ==
    <<"A","B","C","D","E","F","G","H","I","J","K","L","M",
      "N","O","P","Q","R","S","T","U","V","W","X","Y","Z">>

DIGITS == {"0","1","2","3","4","5","6","7","8","9"}

SeqRange(s) == {s[i] : i \in 1..Len(s)}

\* [$-_@.&+]: the range from "$" (0x24) to "_" (0x5F), which also holds "@.&+";
\* listed here without the digits and capitals it covers
PUNCT_DOLLAR_TO_UNDERSCORE ==
    {"$","%","&","'","(",")","*","+",",","-",".","/",
     ":",";","<","=",">","?","@","[","\\","]","^","_"}

\* [!*\\(\\),]
PUNCT_BANG_CLASS == {"!","*","\\","(",")",","}

\* the characters one iteration of (?:[a-zA-Z]|[0-9]|[$-_@.&+]|[!*\\(\\),]|%XX) can
\* consume; "%" is in the third class, so the %XX alternative adds nothing
URL_CHARS ==
    SeqRange(LOWER_LETTERS) \cup SeqRange(UPPER_LETTERS) \cup DIGITS
        \cup PUNCT_DOLLAR_TO_UNDERSCORE \cup PUNCT_BANG_CLASS

-----------------------------------------------------------------------------
(* String primitives *)

\* s[i:i+len(pat)] == pat
StartsWithAt(s, i, pat) ==
    /\ i >= 1
    /\ i + Len(pat) - 1 <= Len(s)
    /\ SubSeq(s, i, i + Len(pat) - 1) = pat

\* pat in s
Contains(s, pat) ==
    \E i \in 1..(Len(s) - Len(pat) + 1) : StartsWithAt(s, i, pat)

IndexOf(s, c) == CHOOSE i \in 1..Len(s) : s[i] = c

LowerChar(c) ==
    IF c \in SeqRange(UPPER_LETTERS) THEN LOWER_LETTERS[IndexOf(UPPER_LETTERS, c)] ELSE c

\* response_text.lower()
Lower(s) == [i \in 1..Len(s) |-> LowerChar(s[i])]

-----------------------------------------------------------------------------
(* re.findall(url_pattern, response_text) *)

\* faulty variant: the pattern written as "http://", without the optional s
SchemeEnd_HttpOnly(s, i) ==
    IF StartsWithAt(s, i, HTTP_SCHEME) THEN i + Len(HTTP_SCHEME) ELSE 0

\* the index after "http[s]?://" matched at i, or 0 when it does not match there
SchemeEnd(s, i) ==
    IF StartsWithAt(s, i, HTTPS_SCHEME) THEN i + Len(HTTPS_SCHEME)
    ELSE IF StartsWithAt(s, i, HTTP_SCHEME) THEN i + Len(HTTP_SCHEME)
    ELSE 0

\* the last index of the longest run of URL characters that starts at j (j - 1: none)
RECURSIVE RunEnd(_, _)
RunEnd(s, j) ==
    IF j <= Len(s) /\ s[j] \in URL_CHARS THEN RunEnd(s, j + 1) ELSE j - 1

\* the non-overlapping matches from index i on, left to right; the group is greedy
RECURSIVE FindAllFrom(_, _)
FindAllFrom(s, i) ==
    IF i > Len(s) THEN <<>>
    ELSE LET j == SchemeEnd(s, i)
             e == IF j = 0 THEN 0 ELSE RunEnd(s, j)
         IN  IF j # 0 /\ e >= j
             THEN <<SubSeq(s, i, e)>> \o FindAllFrom(s, e + 1)
             ELSE FindAllFrom(s, i + 1)

findall(response_text) == FindAllFrom(response_text, 1)

-----------------------------------------------------------------------------
(* extract_sources *)

Source(title, url, type) == [title |-> title, url |-> url, type |-> type]

\* the if / elif chain of lines 150-157
ClassifyUrl(url) ==
    IF Contains(url, ARXIV_ORG) THEN Source("arXiv Academic Paper", url, "academic")
    ELSE IF Contains(url, WIKIPEDIA_ORG) THEN Source("Wikipedia Article", url, "encyclopedia")
    ELSE IF Contains(url, DOI_ORG) THEN Source("Research Paper", url, "research")
    ELSE Source("Web Source", url, "web")

\* the for loop of lines 148-157
UrlSources(urls) == [i \in 1..Len(urls) |-> ClassifyUrl(urls[i])]

\* any(s['type'] == type for s in sources)
HasType(sources, type) == \E i \in 1..Len(sources) : sources[i].type = type

\* faulty variant: the keywords looked up in response_text itself, without .lower()
AnyKeyword_CaseSensitive(response_text, keywords) ==
    \E k \in keywords : Contains(response_text, k)

\* any(keyword in response_text.lower() for keyword in keywords)
AnyKeyword(response_text, keywords) ==
    \E k \in keywords : Contains(Lower(response_text), k)

ACADEMIC_KEYWORDS == {KW_ARXIV, KW_PAPER, KW_RESEARCH, KW_STUDY}

ENCYCLOPEDIA_KEYWORDS == {KW_WIKIPEDIA, KW_WIKI}

\* faulty variant: the arXiv Repository entry added without the keyword test
AddAcademicIndicator_Unconditional(sources, response_text) ==
    IF ~HasType(sources, "academic")
    THEN Append(sources, Source("arXiv Repository", ARXIV_REPOSITORY_URL, "academic"))
    ELSE sources

\* lines 160-162
AddAcademicIndicator(sources, response_text) ==
    IF AnyKeyword(response_text, ACADEMIC_KEYWORDS) /\ ~HasType(sources, "academic")
    THEN Append(sources, Source("arXiv Repository", ARXIV_REPOSITORY_URL, "academic"))
    ELSE sources

\* lines 164-166
AddEncyclopediaIndicator(sources, response_text) ==
    IF AnyKeyword(response_text, ENCYCLOPEDIA_KEYWORDS) /\ ~HasType(sources, "encyclopedia")
    THEN Append(sources, Source("Wikipedia", WIKIPEDIA_URL, "encyclopedia"))
    ELSE sources

extract_sources(response_text) ==
    AddEncyclopediaIndicator(
        AddAcademicIndicator(UrlSources(findall(response_text)), response_text),
        response_text)

-----------------------------------------------------------------------------
(* The extractor applied to bounded inputs *)

\* what an input text is built from: URLs of the four categories, keywords in
\* mixed case, a bare scheme, and characters inside and outside the URL class
CHUNKS ==
    {ARXIV_ABS_URL, WIKI_ARTICLE_URL, DOI_URL, WORD_RESEARCH_MIXED, WORD_WIKI,
     HTTP_SCHEME, CHUNK_SPACE, CHUNK_DOT, CHUNK_DIGIT}

RECURSIVE Concatenations(_)
Concatenations(n) ==
    IF n = 0 THEN {<<>>}
    ELSE LET shorter == Concatenations(n - 1)
         IN  shorter \cup {s \o c : s \in shorter, c \in CHUNKS}

\* sources = extract_sources(text)
Extract ==
    /\ ~extracted
    /\ extracted' = TRUE
    /\ result' = extract_sources(text)
    /\ UNCHANGED text

\* "See https://arxiv.org/abs/1234."
OUTPUT_ARXIV_CITED ==
    <<"S","e","e"," ","h","t","t","p","s",":","/","/","a","r","x","i","v",".","o","r","g",
      "/","a","b","s","/","1","2","3","4",".">>

\* "Research on wiki"
OUTPUT_RESEARCH_WIKI ==
    <<"R","e","s","e","a","r","c","h"," ","o","n"," ","w","i","k","i">>

\* "A study: https://doi.org/10.1"
CONTENT_DOI_STUDY ==
    <<"A"," ","s","t","u","d","y",":"," ","h","t","t","p","s",":","/","/","d","o","i",".",
      "o","r","g","/","1","0",".","1">>

\* "Hi."
CONTENT_PLAIN ==
    <<"H","i",".">>

\* "news?"
PROMPT_PLAIN ==
    <<"n","e","w","s","?">>

-----------------------------------------------------------------------------
(* Session state *)

NULL == "None"

Last(s) == s[Len(s)]

\* {"role": "user", "content": content}: the code gives a user message no sources key
UserMessage(content) == [role |-> "user", content |-> content]

\* {"role": "assistant", "content": content, "sources": sources}
AssistantMessage(content, sources) ==
    [role |-> "assistant", content |-> content, sources |-> sources]

\* initialize_agent: the AgentExecutor, or None when anything in the try block raised
initialize_agent(constructed) == IF constructed THEN "AgentExecutor" ELSE NULL

\* no processing block ran in the script run
NO_RUN ==
    [primary |-> "not_run", output |-> <<>>, fallback |-> "not_run",
     fallback_content |-> <<>>, base |-> 0]

\* the canned queries of the three query buttons, by column
QUICK_QUERIES == <<AI_RESEARCH_QUERY, WIKIPEDIA_QUERY, WEB_SEARCH_QUERY>>

QUICK_EVENTS == <<"latest_ai_research", "search_wikipedia", "web_search">>

\* what st.chat_input can return (a non-empty text)
PROMPTS == {PROMPT_PLAIN}

\* what agent.invoke can return: a dict with or without the "output" key
AGENT_RESPONSES ==
    {[has_output |-> TRUE, output |-> OUTPUT_ARXIV_CITED],
     [has_output |-> TRUE, output |-> OUTPUT_RESEARCH_WIKI],
     [has_output |-> FALSE, output |-> <<>>]}

\* what direct_response.content can be
LLM_CONTENTS == {CONTENT_DOI_STUDY, CONTENT_PLAIN}

\* The try block of lines 272-312 ends normally ("ok"), or raises before the append
\* of line 293 (constructing the callback handler, agent.invoke: "raise_invoke"), or
\* raises after it (the markdown calls of lines 300-312: "raise_render").
PRIMARY_OUTCOMES ==
    {[kind |-> "raise_invoke", response |-> [has_output |-> FALSE, output |-> <<>>]]}
        \cup [kind : {"ok", "raise_render"}, response : AGENT_RESPONSES]

\* The same for the try block of lines 318-345: ChatGroq(...) or llm.invoke raise
\* before the append of line 327, the markdown calls of lines 333-345 after it.
FALLBACK_OUTCOMES ==
    {[kind |-> "not_run", content |-> <<>>], [kind |-> "raise_invoke", content |-> <<>>]}
        \cup [kind : {"ok", "raise_render"}, content : LLM_CONTENTS]

SessionInit ==
    /\ messages = <<AssistantMessage(GREETING, <<>>)>>
    /\ \E constructed \in BOOLEAN : agent = initialize_agent(constructed)
    /\ pc = "idle"
    /\ event = "none"
    /\ pendingAtEvent = FALSE
    /\ notice = "none"
    /\ outcome = NO_RUN

Init ==
    /\ SessionInit
    /\ text = <<>>
    /\ extracted = FALSE
    /\ result = <<>>

-----------------------------------------------------------------------------
(* Widget events: each is one script run that ends at st.rerun() or st.stop() *)

\* the three query buttons append without looking at st.session_state.agent
QuickAction(i) ==
    /\ pc = "idle"
    /\ Len(messages) < MaxMessages
    /\ messages' = Append(messages, UserMessage(QUICK_QUERIES[i]))
    /\ pc' = "rerun"
    /\ event' = QUICK_EVENTS[i]
    /\ pendingAtEvent' = (Last(messages).role = "user")
    /\ notice' = "none"
    /\ outcome' = NO_RUN
    /\ UNCHANGED <<agent, extractVars>>

\* faulty variant: the clear greeting appended to the store instead of replacing it
ClearedMessages_Appended(msgs) == Append(msgs, AssistantMessage(CLEAR_GREETING, <<>>))

ClearedMessages(msgs) == <<AssistantMessage(CLEAR_GREETING, <<>>)>>

ClearChat ==
    /\ pc = "idle"
    /\ messages' = ClearedMessages(messages)
    /\ pc' = "rerun"
    /\ event' = "clear_chat"
    /\ pendingAtEvent' = (Last(messages).role = "user")
    /\ notice' = "none"
    /\ outcome' = NO_RUN
    /\ UNCHANGED <<agent, extractVars>>

\* if not st.session_state.agent: st.error(...); st.stop()
ChatInputAccepts(a) == a # NULL

ChatInput(prompt) ==
    /\ pc = "idle"
    /\ Len(messages) < MaxMessages
    /\ event' = "chat_input"
    /\ pendingAtEvent' = (Last(messages).role = "user")
    /\ outcome' = NO_RUN
    /\ IF ChatInputAccepts(agent)
       THEN /\ messages' = Append(messages, UserMessage(prompt))
            /\ pc' = "rerun"
            /\ notice' = "none"
       ELSE /\ notice' = "not_initialized"
            /\ pc' = "idle"
            /\ UNCHANGED messages
    /\ UNCHANGED <<agent, extractVars>>

-----------------------------------------------------------------------------
(* The run that st.rerun() starts: no widget fires, the script reaches line 262 *)

\* the condition of lines 262-264
ShouldProcess(msgs, a) ==
    /\ Len(msgs) > 0
    /\ Last(msgs).role = "user"
    /\ a # NULL

\* response.get("output", "I apologize, ...")
ResponseOutput(response) ==
    IF response.has_output THEN response.output ELSE DEFAULT_OUTPUT

\* faulty variant: the sources extracted from user_message instead of output
PrimaryTry_SourcesFromQuery(msgs, p) ==
    IF p.kind = "raise_invoke" THEN msgs
    ELSE LET output == ResponseOutput(p.response)
             sources == extract_sources(Last(msgs).content)
         IN  Append(msgs, AssistantMessage(output, sources))

\* the store when the try block of lines 272-312 is left
PrimaryTry(msgs, p) ==
    IF p.kind = "raise_invoke" THEN msgs
    ELSE LET output == ResponseOutput(p.response)
             sources == extract_sources(output)
         IN  Append(msgs, AssistantMessage(output, sources))

\* the store when the try block of lines 318-345 is left
FallbackTry(msgs, f) ==
    IF f.kind = "raise_invoke" THEN msgs
    ELSE LET fallback_content == f.content
             fallback_sources == extract_sources(fallback_content)
         IN  Append(msgs, AssistantMessage(fallback_content, fallback_sources))

\* faulty variant: the apology rendered but not appended to the store
FinalErrorAppend_NotAppended(msgs) == msgs

\* the except block of lines 347-354; the markdown call of line 354 comes after the
\* append, so an exception there ends the run with the same store
FinalErrorAppend(msgs) == Append(msgs, AssistantMessage(final_error, <<>>))

\* lines 272-354: the fallback runs only when the primary try block raised, the
\* apology only when the fallback try block raised
ProcessMessages(msgs, p, f) ==
    IF p.kind = "ok" THEN PrimaryTry(msgs, p)
    ELSE IF f.kind = "ok" THEN FallbackTry(PrimaryTry(msgs, p), f)
    ELSE FinalErrorAppend(FallbackTry(PrimaryTry(msgs, p), f))

ProcessLatestUser ==
    /\ pc = "rerun"
    /\ ShouldProcess(messages, agent)
    /\ \E p \in PRIMARY_OUTCOMES, f \in FALLBACK_OUTCOMES :
        /\ (p.kind = "ok") <=> (f.kind = "not_run")
        /\ messages' = ProcessMessages(messages, p, f)
        /\ notice' = IF p.kind = "ok" THEN "none" ELSE "tools_unavailable"
        /\ outcome' =
              [primary |-> p.kind,
               output |-> IF p.kind = "raise_invoke" THEN <<>> ELSE ResponseOutput(p.response),
               fallback |-> f.kind,
               fallback_content |-> f.content,
               base |-> Len(messages)]
    /\ pc' = "idle"
    /\ UNCHANGED <<agent, event, pendingAtEvent, extractVars>>

\* the rerun finds nothing to process and the script ends at the footer
RerunRender ==
    /\ pc = "rerun"
    /\ ~ShouldProcess(messages, agent)
    /\ pc' = "idle"
    /\ notice' = "none"
    /\ outcome' = NO_RUN
    /\ UNCHANGED <<messages, agent, event, pendingAtEvent, extractVars>>

Next ==
    \/ \E i \in 1..3 : QuickAction(i)
    \/ ClearChat
    \/ \E prompt \in PROMPTS : ChatInput(prompt)
    \/ ProcessLatestUser
    \/ RerunRender

Spec == Init /\ [][Next]_vars

\* the session as constructed, and the extractor about to be called on a bounded input
ExtractInit ==
    /\ SessionInit
    /\ text \in Concatenations(MaxChunks)
    /\ extracted = FALSE
    /\ result = <<>>

ExtractNext == Extract /\ UNCHANGED sessionVars

ExtractSpec == ExtractInit /\ [][ExtractNext]_vars

-----------------------------------------------------------------------------
(* Properties *)

IsUser(m) == m.role = "user"

IsAssistant(m) == m.role = "assistant"

NoConsecutiveUsers ==
    \A i \in 1..(Len(messages) - 1) : ~(IsUser(messages[i]) /\ IsUser(messages[i + 1]))

\* C1: whenever the page waits for input, the last message has been answered (the
\* Agent ran and an assistant message was appended before further input), and the
\* store never holds two consecutive user messages.
C1_PendingAnsweredBeforeInput ==
    /\ pc = "idle" => IsAssistant(Last(messages))
    /\ NoConsecutiveUsers

SUBMIT_EVENTS == SeqRange(QUICK_EVENTS) \cup {"chat_input"}

\* C2: with a null agent, every submission (chat input or one of the three query
\* buttons) is rejected with the "not initialized" error and leaves the store as it was.
C2_NullAgentRejectsSubmissions ==
    [][(agent = NULL /\ pc = "idle" /\ event' \in SUBMIT_EVENTS)
          => (messages' = messages /\ notice' = "not_initialized")]_vars

PrimaryRaised == outcome.primary \in {"raise_invoke", "raise_render"}

\* C3: when the primary path raised and the fallback succeeded, the one message
\* appended for the user message is the fallback content with
\* extract_sources(fallback_content), and nothing of the primary path is in the store.
C3_FallbackOnlyInStore ==
    (PrimaryRaised /\ outcome.fallback = "ok") =>
        /\ Len(messages) = outcome.base + 1
        /\ Last(messages) =
              AssistantMessage(outcome.fallback_content,
                               extract_sources(outcome.fallback_content))
        /\ \A i \in (outcome.base + 1)..Len(messages) :
              outcome.primary = "raise_render" => messages[i].content # outcome.output

BothInvocationsRaised ==
    outcome.primary = "raise_invoke" /\ outcome.fallback = "raise_invoke"

\* C4: when the agent invocation and the direct-model invocation both raise, exactly
\* the fixed apology is appended, with empty sources, and the session stays usable:
\* the page waits for input, a submission is accepted and reaches the processing block.
C4_DoubleFallbackApology ==
    BothInvocationsRaised =>
        /\ Len(messages) = outcome.base + 1
        /\ Last(messages) = AssistantMessage(final_error, <<>>)
        /\ pc = "idle"
        /\ ChatInputAccepts(agent)
        /\ \A q \in SeqRange(QUICK_QUERIES) \cup PROMPTS :
              ShouldProcess(Append(messages, UserMessage(q)), agent)

\* a second submission was accepted and processed after an earlier apology
C4_Witness ==
    /\ BothInvocationsRaised
    /\ outcome.base >= 4
    /\ messages[outcome.base - 1] = AssistantMessage(final_error, <<>>)
    /\ IsUser(messages[outcome.base])
    /\ IsAssistant(Last(messages))

\* C5: every assistant message's sources are empty or the extractor's output on
\* that message's content.
C5_SourcesFromOwnContent ==
    \A i \in 1..Len(messages) :
        IsAssistant(messages[i]) =>
            \/ messages[i].sources = <<>>
            \/ messages[i].sources = extract_sources(messages[i].content)

\* a store after Clear that holds a primary or fallback answer with sources
C5_Witness ==
    /\ messages[1].content = CLEAR_GREETING
    /\ extract_sources(messages[1].content) # <<>>
    /\ \E i \in 1..Len(messages) :
          IsAssistant(messages[i]) /\ messages[i].sources # <<>>

\* C6: after Clear, until the next widget event, the store is one assistant message
\* with empty sources and no invocation has run.
C6_ClearLeavesOneGreeting ==
    event = "clear_chat" =>
        /\ Len(messages) = 1
        /\ IsAssistant(messages[1])
        /\ messages[1].sources = <<>>
        /\ outcome = NO_RUN

\* Clear was pressed over an unanswered user message and its rerun has finished
C6_Witness ==
    /\ event = "clear_chat"
    /\ pendingAtEvent
    /\ pc = "idle"

ARXIV_PAPER_SOURCE == Source("arXiv Academic Paper", ARXIV_ABS_URL, "academic")

ContainsArxivAbsUrl == extracted /\ Contains(text, ARXIV_ABS_URL)

\* C7 as stated: any text containing https://arxiv.org/abs/1234 yields the academic
\* source with exactly that url.
C7_ExactUrlAlways ==
    ContainsArxivAbsUrl => \E i \in 1..Len(result) : result[i] = ARXIV_PAPER_SOURCE

\* an occurrence with no URL character right before it and none right after it
DelimitedOccurrence(s, pat) ==
    \E k \in 1..Len(s) :
        /\ StartsWithAt(s, k, pat)
        /\ (k = 1 \/ s[k - 1] \notin URL_CHARS)
        /\ (k + Len(pat) > Len(s) \/ s[k + Len(pat)] \notin URL_CHARS)

\* C7 amended: a text containing https://arxiv.org/abs/1234 yields an academic
\* "arXiv Academic Paper" source whose url contains it, and the url is exactly it
\* when the occurrence has no URL character right before or right after it.
C7_UrlContainedExactWhenDelimited ==
    ContainsArxivAbsUrl =>
        /\ \E i \in 1..Len(result) :
              /\ result[i].type = "academic"
              /\ result[i].title = "arXiv Academic Paper"
              /\ Contains(result[i].url, ARXIV_ABS_URL)
        /\ DelimitedOccurrence(text, ARXIV_ABS_URL) =>
              \E i \in 1..Len(result) : result[i] = ARXIV_PAPER_SOURCE

\* the URL sits between other characters and is still returned exactly
C7_Witness ==
    /\ ContainsArxivAbsUrl
    /\ DelimitedOccurrence(text, ARXIV_ABS_URL)
    /\ Len(text) > Len(ARXIV_ABS_URL) + 1
    /\ \E i \in 1..Len(result) : result[i] = ARXIV_PAPER_SOURCE

ARXIV_REPOSITORY_SOURCE == Source("arXiv Repository", ARXIV_REPOSITORY_URL, "academic")

WIKIPEDIA_SOURCE == Source("Wikipedia", WIKIPEDIA_URL, "encyclopedia")

ResearchWithoutUrl ==
    extracted /\ findall(text) = <<>> /\ Contains(Lower(text), KW_RESEARCH)

\* C8 as stated: no URL match and the word research (any case) give exactly the
\* arXiv Repository source.
C8_ExactlyRepository ==
    ResearchWithoutUrl => result = <<ARXIV_REPOSITORY_SOURCE>>

\* C8 amended: no URL match and the word research (any case) give the arXiv
\* Repository source, alone when the text does not contain "wiki" in any case and
\* followed by the synthetic Wikipedia source when it does.
C8_RepositoryThenWikipedia ==
    ResearchWithoutUrl =>
        result = IF Contains(Lower(text), KW_WIKI)
                 THEN <<ARXIV_REPOSITORY_SOURCE, WIKIPEDIA_SOURCE>>
                 ELSE <<ARXIV_REPOSITORY_SOURCE>>

\* "Research" with a capital, no wiki, and other characters around it
C8_Witness ==
    /\ ResearchWithoutUrl
    /\ ~Contains(text, KW_RESEARCH)
    /\ ~Contains(Lower(text), KW_WIKI)
    /\ Len(text) > Len(KW_RESEARCH)
    /\ result = <<ARXIV_REPOSITORY_SOURCE>>

AiResearchAnswered ==
    /\ outcome.primary = "ok"
    /\ outcome.base >= 1
    /\ messages[outcome.base] = UserMessage(AI_RESEARCH_QUERY)

\* C9 as stated: after the Latest AI Research query and a successful primary
\* invocation, the appended sources include an academic entry whatever the output.
C9_AlwaysAcademic ==
    AiResearchAnswered => HasType(messages[outcome.base + 1].sources, "academic")

\* C9 amended: the appended sources are extract_sources(output), and they include an
\* academic entry exactly when the output contains arxiv, paper, research or study
\* in any letter case.
C9_AcademicIffKeywordInOutput ==
    AiResearchAnswered =>
        /\ Len(messages) = outcome.base + 1
        /\ Last(messages) =
              AssistantMessage(outcome.output, extract_sources(outcome.output))
        /\ HasType(Last(messages).sources, "academic")
              <=> AnyKeyword(outcome.output, ACADEMIC_KEYWORDS)

\* the query answered with an output that cites an arXiv URL
C9_Witness ==
    /\ AiResearchAnswered
    /\ event = "latest_ai_research"
    /\ HasType(Last(messages).sources, "academic")

\* C10: each processing appends exactly one assistant message, wherever a try block
\* raised, and the fallback runs only after a primary failure.
C10_ExactlyOneAppend ==
    outcome.primary # "not_run" =>
        /\ Len(messages) = outcome.base + 1
        /\ IsAssistant(Last(messages))
        /\ outcome.fallback # "not_run" => PrimaryRaised

====
